---------------------------- MODULE Spec2Model ----------------------------
(***************************************************************************)
(* The YouTube summarizer server: the sliding-window rate limiter that     *)
(* guards /api/summarize, and the summarizeYouTube flow behind it          *)
(* (video id extraction, tiered transcript acquisition, chunking, the      *)
(* per-chunk generation loop and the final structured generation).         *)
(*                                                                         *)
(* Text is a sequence of one-character strings.  A value that may be       *)
(* null/undefined is a record [null, text].  Every action is the code that *)
(* runs between two suspension points (await) of the single-threaded       *)
(* event loop, so it is atomic.                                            *)
(***************************************************************************)
EXTENDS Integers, Sequences, FiniteSets, TLC

VARIABLES
    now,      \* Date.now(), in ms
    ticks,    \* how often the clock has advanced (model bound only)
    apiKey,   \* process.env.YOUTUBE_API_KEY
    hits,     \* the Map ip -> number[] of the rate limiter
    log,      \* history: per identity, what the limiter answered to each request
    flows,    \* the summarizeYouTube invocations in flight, in start order
    helper    \* a call of one of the helpers on its own: its arguments and result

vars == <<now, ticks, apiKey, hits, log, flows, helper>>

-----------------------------------------------------------------------------
(* Program constants *)

WINDOW_MS == 30000
MAX_REQ == 15
CHUNK_LEN == 6500
ID_LEN == 11

(* Bounds of the model *)

MaxTicks == 1
MaxArrivals == 17
MaxInFlight == 1
LongLen == 3300
MaxText == 5
MaxLimit == 4

-----------------------------------------------------------------------------
(* Text helpers *)

Null == [null |-> TRUE, text |-> <<>>]
Some(t) == [null |-> FALSE, text |-> t]
\* JavaScript truthiness of a string | null | undefined
Truthy(x) == ~x.null /\ Len(x.text) > 0

Fill(n, c) == [i \in 1..n |-> c]

Whitespace == {" ", "\n", "\t"}
Terminators == {".", "!", "?"}
Letters ==
    {"a", "b", "c", "d", "e", "f", "g", "h", "i", "j", "k", "l", "m", "n", "o", "p", "q",
     "r", "s", "t", "u", "v", "w", "x", "y", "z", "A", "B", "C", "D", "E", "F", "G", "H",
     "I", "J", "K", "L", "M", "N", "O", "P", "Q", "R", "S", "T", "U", "V", "W", "X", "Y",
     "Z"}
Digits == {"0", "1", "2", "3", "4", "5", "6", "7", "8", "9"}
\* the class [\w-]
WordOrDash == Letters \cup Digits \cup {"_", "-"}

\* Array.prototype.join
RECURSIVE Join(_, _)
Join(ss, sep) ==
    IF Len(ss) = 0 THEN <<>>
    ELSE IF Len(ss) = 1 THEN ss[1]
    ELSE ss[1] \o sep \o Join(Tail(ss), sep)

\* The least i in lo..hi with P(i), or `none`
First(lo, hi, P(_), none) ==
    IF \E i \in lo..hi : P(i)
    THEN CHOOSE i \in lo..hi : P(i) /\ \A j \in lo..(i - 1) : ~P(j)
    ELSE none

\* The greatest i in lo..hi with P(i), or `none`
Last(lo, hi, P(_), none) ==
    IF \E i \in lo..hi : P(i)
    THEN CHOOSE i \in lo..hi : P(i) /\ \A j \in (i + 1)..hi : ~P(j)
    ELSE none

\* String.prototype.trim
TrimStart(s) ==
    LET i == First(1, Len(s), LAMBDA j : s[j] \notin Whitespace, 0)
    IN  IF i = 0 THEN <<>> ELSE SubSeq(s, i, Len(s))
TrimEnd(s) ==
    LET i == Last(1, Len(s), LAMBDA j : s[j] \notin Whitespace, 0)
    IN  SubSeq(s, 1, i)
Trim(s) == TrimEnd(TrimStart(s))

\* s.indexOf(c, from), 1-based; 0 when c does not occur
IndexOf(s, c, from) == First(from, Len(s), LAMBDA i : s[i] = c, 0)

\* s.startsWith(p)
StartsWith(s, p) == Len(s) >= Len(p) /\ SubSeq(s, 1, Len(p)) = p

\* s.includes(p)
Includes(s, p) ==
    \E i \in 1..(Len(s) - Len(p) + 1) : SubSeq(s, i, i + Len(p) - 1) = p

\* s.split(c) for a one-character separator
RECURSIVE SplitChar(_, _)
SplitChar(s, c) ==
    LET i == IndexOf(s, c, 1)
    IN  IF i = 0 THEN <<s>>
        ELSE <<SubSeq(s, 1, i - 1)>> \o SplitChar(SubSeq(s, i + 1, Len(s)), c)

-----------------------------------------------------------------------------
(* extractVideoId *)

\* /^[\w-]{11}$/.test(input)
IsBareId(input) ==
    Len(input) = ID_LEN /\ \A i \in 1..Len(input) : input[i] \in WordOrDash

\* The first position at or after `from` holding one of the characters of `cs`,
\* or Len(s) + 1
FirstOf(s, cs, from) == First(from, Len(s), LAMBDA i : s[i] \in cs, Len(s) + 1)

\* new URL(input) for absolute http(s) URLs without userinfo, port, fragment or
\* percent-escapes: [ok, hostname, pathname, search]; ok = FALSE where the
\* constructor throws
ParseURL(input) ==
    LET colon == IndexOf(input, ":", 1)
        scheme == SubSeq(input, 1, colon - 1)
        hostAt == colon + 3
        hostEnd == FirstOf(input, {"/", "?"}, hostAt)
        pathEnd == FirstOf(input, {"?"}, hostEnd)
        bad == [ok |-> FALSE, hostname |-> <<>>, pathname |-> <<>>, search |-> <<>>]
    IN  IF \/ colon = 0
           \/ scheme \notin {<<"h", "t", "t", "p">>, <<"h", "t", "t", "p", "s">>}
           \/ Len(input) < colon + 3
           \/ SubSeq(input, colon + 1, colon + 2) # <<"/", "/">>
           \/ hostEnd = hostAt
           \/ \E i \in 1..Len(input) : input[i] \in Whitespace
        THEN bad
        ELSE [ok |-> TRUE,
              hostname |-> SubSeq(input, hostAt, hostEnd - 1),
              pathname |-> IF pathEnd = hostEnd THEN <<"/">>
                           ELSE SubSeq(input, hostEnd, pathEnd - 1),
              search |-> SubSeq(input, pathEnd, Len(input))]

\* url.searchParams.get(name): the value of the first parameter called name
SearchParam(search, name) ==
    LET pairs == IF Len(search) <= 1 THEN <<>>
                 ELSE SplitChar(SubSeq(search, 2, Len(search)), "&")
        Key(p) == LET e == IndexOf(p, "=", 1)
                  IN  IF e = 0 THEN p ELSE SubSeq(p, 1, e - 1)
        Val(p) == LET e == IndexOf(p, "=", 1)
                  IN  IF e = 0 THEN <<>> ELSE SubSeq(p, e + 1, Len(p))
        at == First(1, Len(pairs),
                    LAMBDA i : Len(pairs[i]) > 0 /\ Key(pairs[i]) = name, 0)
    IN  IF at = 0 THEN Null ELSE Some(Val(pairs[at]))

YOUTU_BE == <<"y", "o", "u", "t", "u", ".", "b", "e">>
EMBED == <<"e", "m", "b", "e", "d">>

extractVideoId(input) ==
    IF IsBareId(input) THEN Some(input)
    ELSE LET url == ParseURL(input) IN
         IF ~url.ok THEN Null
         ELSE IF Includes(url.hostname, YOUTU_BE)
              THEN Some(SubSeq(url.pathname, 2, Len(url.pathname)))
         ELSE LET v == SearchParam(url.search, <<"v">>) IN
              IF Truthy(v) THEN v
              ELSE LET parts == SplitChar(url.pathname, "/")
                       idx == First(1, Len(parts), LAMBDA i : parts[i] = EMBED, 0)
                   IN  IF idx > 0 /\ idx + 1 <= Len(parts) /\ Len(parts[idx + 1]) > 0
                       THEN Some(parts[idx + 1])
                       ELSE Null

-----------------------------------------------------------------------------
(* chunk *)

\* A match of /(?<=[.!?])\s+/ starts at i: a whitespace character right after
\* a sentence terminator
IsSplitStart(text, i) ==
    i > 1 /\ text[i] \in Whitespace /\ text[i - 1] \in Terminators

\* The first match at or after `from`, 0 when there is none
NextMatch(text, from) == First(from, Len(text), LAMBDA i : IsSplitStart(text, i), 0)

\* The position after the match starting at i (\s+ is greedy)
MatchEnd(text, i) ==
    First(i + 1, Len(text), LAMBDA j : text[j] \notin Whitespace, Len(text) + 1)

\* text.split(/(?<=[.!?])\s+/), from position `from`
RECURSIVE SplitSentences(_, _)
SplitSentences(text, from) ==
    LET m == NextMatch(text, from)
    IN  IF m = 0 THEN <<SubSeq(text, from, Len(text))>>
        ELSE <<SubSeq(text, from, m - 1)>> \o SplitSentences(text, MatchEnd(text, m))

\* (a variant whose test forgets the buffer)
RECURSIVE ChunkLoopPieceOnly(_, _, _, _, _)
ChunkLoopPieceOnly(pieces, k, parts, buf, maxLen) ==
    IF k > Len(pieces)
    THEN IF Len(Trim(buf)) > 0 THEN Append(parts, Trim(buf)) ELSE parts
    ELSE LET piece == pieces[k] IN
         IF Len(piece) > maxLen
         THEN ChunkLoopPieceOnly(pieces, k + 1, Append(parts, Trim(buf)), piece, maxLen)
         ELSE ChunkLoopPieceOnly(pieces, k + 1, parts,
                                 buf \o (IF Len(buf) > 0 THEN <<" ">> ELSE <<>>) \o piece,
                                 maxLen)

\* The for loop of chunk over pieces[k..], with the parts and the buffer so far;
\* then the final flush
RECURSIVE ChunkLoop(_, _, _, _, _)
ChunkLoop(pieces, k, parts, buf, maxLen) ==
    IF k > Len(pieces)
    THEN IF Len(Trim(buf)) > 0 THEN Append(parts, Trim(buf)) ELSE parts
    ELSE LET piece == pieces[k] IN
         IF Len(buf) + 1 + Len(piece) > maxLen
         THEN ChunkLoop(pieces, k + 1, Append(parts, Trim(buf)), piece, maxLen)
         ELSE ChunkLoop(pieces, k + 1, parts,
                        buf \o (IF Len(buf) > 0 THEN <<" ">> ELSE <<>>) \o piece, maxLen)

chunk(text, maxLen) == ChunkLoop(SplitSentences(text, 1), 1, <<>>, <<>>, maxLen)

-----------------------------------------------------------------------------
(* The results summarizeYouTube returns without a final generation *)

Sentinel(title, summary, warning) ==
    [title |-> title, summary |-> summary, bullets |-> <<>>, warnings |-> <<warning>>]

InvalidResult ==
    Sentinel("Invalid YouTube URL or ID",
             "The provided input is not a valid YouTube URL or video ID.",
             "Invalid YouTube URL or ID provided.")
NoTranscriptResult ==
    Sentinel("Transcript not available",
             "This video has no subtitles or transcript.",
             "YouTube did not expose captions for this video.")
EmptyTranscriptResult ==
    Sentinel("Transcript is empty",
             "The transcript for this video is empty or could not be processed.",
             "Transcript is empty or invalid.")
NoBulletsResult ==
    Sentinel("Summary unavailable",
             "Unable to generate summary from the transcript.",
             "Failed to generate summary from transcript chunks.")
NoOutputResult ==
    Sentinel("Summary unavailable",
             "Unable to generate a valid summary from the transcript.",
             "Failed to parse final summary output.")
FinalErrorResult ==
    Sentinel("Summary generation error",
             "An error occurred while generating the summary.",
             "Exception during final summary generation.")
\* no result yet
Pending == [title |-> "", summary |-> "", bullets |-> <<>>, warnings |-> <<>>]

-----------------------------------------------------------------------------
(* One invocation of the flow: the locals of the async function, the position *)
(* it is suspended at, and as history the calls it has issued to the outside  *)
(* (calls), what the transcript sources answered (tiers), what the per-chunk  *)
(* generations answered (answers) and how the final generation ended (final:  *)
(* "" before it has, then "throw", "null" or "output")                        *)

\* A call to an external service.  kind: "captions" (lang "en" or "any"),
\* "metadata", "generate" (chunk index of total, text = the section) or
\* "final" (text = the combined bullets)
Call(kind, lang, index, total, text) ==
    [kind |-> kind, lang |-> lang, index |-> index, total |-> total, text |-> text]

NewFlow(urlOrId) ==
    [pc |-> "start", urlOrId |-> urlOrId, videoId |-> Null,
     transcript |-> Null, parts |-> <<>>, partials |-> <<>>, result |-> Pending,
     calls |-> <<>>, tiers |-> <<>>, answers |-> <<>>, final |-> ""]

\* A transcript source has answered: kind "throw", "empty" (no cue, no item) or
\* "text"
Heard(f, kind, text) == [f EXCEPT !.tiers = Append(@, [kind |-> kind, text |-> text])]
CaptionAnswer(f, o) ==
    IF o.throws THEN Heard(f, "throw", <<>>)
    ELSE IF Len(o.cues) = 0 THEN Heard(f, "empty", <<>>)
    ELSE Heard(f, "text", Join(o.cues, <<" ">>))
MetadataAnswer(f, o) ==
    IF o.kind = "item" THEN Heard(f, "text", o.title \o <<"\n">> \o o.description)
    ELSE IF o.kind = "none" THEN Heard(f, "empty", <<>>)
    ELSE Heard(f, "throw", <<>>)

Issue(f, call, pc) == [f EXCEPT !.calls = Append(@, call), !.pc = pc]
Return(f, result) == [f EXCEPT !.result = result, !.pc = "done"]

\* await ai.generate for section i of parts (lines 221-227)
IssueGenerate(f, i) ==
    Issue(f, Call("generate", "-", i, Len(f.parts), f.parts[i]), "stage1")

\* (a variant without the filter)
CombinedBulletsUnfiltered(partials) == Join(partials, <<"\n">>)

\* partials.filter(Boolean).join("\n")
CombinedBullets(partials) ==
    Join(SelectSeq(partials, LAMBDA p : Len(p) > 0), <<"\n">>)

\* The flow from the return of fetchTranscript to its next suspension
AfterTranscript(f, transcript) ==
    LET g == [f EXCEPT !.transcript = transcript] IN
    IF ~Truthy(transcript) THEN Return(g, NoTranscriptResult)
    ELSE LET parts == chunk(transcript.text, CHUNK_LEN) IN
         IF Len(parts) = 0 THEN Return(g, EmptyTranscriptResult)
         ELSE IssueGenerate([g EXCEPT !.parts = parts], 1)

\* (a variant that goes on to the final generation at the first bullets)
AfterPartialEager(f, i) ==
    LET combinedBullets == CombinedBullets(f.partials) IN
    IF Len(combinedBullets) > 0
    THEN Issue(f, Call("final", "-", 0, 0, combinedBullets), "stage2")
    ELSE IF i < Len(f.parts) THEN IssueGenerate(f, i + 1)
    ELSE Return(f, NoBulletsResult)

\* The flow after the loop body has pushed the partial of section i
AfterPartial(f, i) ==
    IF i < Len(f.parts) THEN IssueGenerate(f, i + 1)
    ELSE LET combinedBullets == CombinedBullets(f.partials) IN
         IF Len(combinedBullets) = 0 THEN Return(f, NoBulletsResult)
         ELSE Issue(f, Call("final", "-", 0, 0, combinedBullets), "stage2")

-----------------------------------------------------------------------------
(* The rate limiter middleware *)

\* req.headers["x-forwarded-for"]?.toString().split(",")[0].trim() || req.ip || "unknown"
\* (forwarded: the first token of the header, "" when there is none)
ClientIp(forwarded, address) ==
    IF forwarded # "" THEN forwarded
    ELSE IF address # "" THEN address
    ELSE "unknown"

\* hits.get(ip) ?? []
Window(ip) == IF ip \in DOMAIN hits THEN hits[ip] ELSE <<>>

\* (a variant that keeps a timestamp exactly WINDOW_MS old)
InWindowInclusive(t, at) == at - t <= WINDOW_MS

\* the filter predicate: now - t < WINDOW_MS
InWindow(t, at) == at - t < WINDOW_MS

\* (a variant that pushes without filtering)
PrunedNothing(ip) == Append(Window(ip), now)

\* (hits.get(ip) ?? []).filter(...); arr.push(now)
Pruned(ip) == Append(SelectSeq(Window(ip), LAMBDA t : InWindow(t, now)), now)

\* (a variant that replaces the whole map)
HitsSetAlone(ip, arr) == [k \in {ip} |-> arr]

\* hits.set(ip, arr)
HitsSet(ip, arr) == [k \in DOMAIN hits \cup {ip} |-> IF k = ip THEN arr ELSE hits[k]]

\* (a variant that is off by one)
OverLimitFromLimit(arr) == Len(arr) >= MAX_REQ

\* arr.length > MAX_REQ
OverLimit(arr) == Len(arr) > MAX_REQ

Served(ip) == IF ip \in DOMAIN log THEN log[ip] ELSE <<>>
Logged(ip, entry) ==
    [k \in DOMAIN log \cup {ip} |-> IF k = ip THEN Append(Served(ip), entry) ELSE log[k]]

\* (a variant without the return after the 429 answer)
LimitFallsThrough(ip, urlOrId) ==
    LET arr == Pruned(ip)
    IN  /\ hits' = HitsSet(ip, arr)
        /\ log' = Logged(ip, IF OverLimit(arr)
                             THEN [at |-> now, status |-> 429,
                                   error |-> "Too many requests", next |-> 1]
                             ELSE [at |-> now, status |-> 0, error |-> "", next |-> 1])
        /\ flows' = Append(flows, NewFlow(urlOrId))
        /\ UNCHANGED <<now, ticks, apiKey, helper>>

\* The middleware for one request: answers 429 and returns, or calls next(),
\* which hands the request to expressHandler(summarizeYouTube)
Limit(ip, urlOrId) ==
    LET arr == Pruned(ip)
    IN  /\ hits' = HitsSet(ip, arr)
        /\ IF OverLimit(arr)
           THEN /\ log' = Logged(ip, [at |-> now, status |-> 429,
                                      error |-> "Too many requests", next |-> 0])
                /\ flows' = flows
           ELSE /\ log' = Logged(ip, [at |-> now, status |-> 0, error |-> "", next |-> 1])
                /\ flows' = Append(flows, NewFlow(urlOrId))
        /\ UNCHANGED <<now, ticks, apiKey, helper>>

-----------------------------------------------------------------------------
(* The steps of a flow, from one suspension to the next *)

SetFlow(k, f) == flows' = [flows EXCEPT ![k] = f]
FlowVarsOnly == UNCHANGED <<now, ticks, apiKey, hits, log, helper>>

\* lines 185-195 and 104-105: resolve the id, return or start tier 1
Start(k) ==
    /\ flows[k].pc = "start"
    /\ LET videoId == extractVideoId(flows[k].urlOrId)
           f == [flows[k] EXCEPT !.videoId = videoId]
       IN  SetFlow(k, IF ~Truthy(videoId) THEN Return(f, InvalidResult)
                      ELSE Issue(f, Call("captions", "en", 0, 0, videoId.text), "tier1"))
    /\ FlowVarsOnly

\* (a variant whose second fetch asks for "en" again)
Tier1SameLanguage(k, o) ==
    /\ flows[k].pc = "tier1"
    /\ LET f == CaptionAnswer(flows[k], o) IN
       SetFlow(k, IF ~o.throws /\ Len(o.cues) > 0
                  THEN AfterTranscript(f, Some(Join(o.cues, <<" ">>)))
                  ELSE Issue(f, Call("captions", "en", 0, 0, f.videoId.text), "tier2"))
    /\ FlowVarsOnly

\* lines 105-115: the language-constrained fetch has returned or thrown
Tier1(k, o) ==
    /\ flows[k].pc = "tier1"
    /\ LET f == CaptionAnswer(flows[k], o) IN
       SetFlow(k, IF ~o.throws /\ Len(o.cues) > 0
                  THEN AfterTranscript(f, Some(Join(o.cues, <<" ">>)))
                  ELSE Issue(f, Call("captions", "any", 0, 0, f.videoId.text), "tier2"))
    /\ FlowVarsOnly

\* (a variant that asks the metadata service without looking at the key)
Tier2IgnoresKey(k, o) ==
    /\ flows[k].pc = "tier2"
    /\ LET f == CaptionAnswer(flows[k], o) IN
       SetFlow(k, IF ~o.throws /\ Len(o.cues) > 0
                  THEN AfterTranscript(f, Some(Join(o.cues, <<" ">>)))
                  ELSE Issue(f, Call("metadata", "-", 0, 0, f.videoId.text), "tier3"))
    /\ FlowVarsOnly

\* lines 115-132: the unconstrained fetch has returned or thrown
Tier2(k, o) ==
    /\ flows[k].pc = "tier2"
    /\ LET f == CaptionAnswer(flows[k], o) IN
       SetFlow(k, IF ~o.throws /\ Len(o.cues) > 0
                  THEN AfterTranscript(f, Some(Join(o.cues, <<" ">>)))
                  ELSE IF ~Truthy(apiKey) THEN AfterTranscript(f, Null)
                  ELSE Issue(f, Call("metadata", "-", 0, 0, f.videoId.text), "tier3"))
    /\ FlowVarsOnly

\* lines 132-143: axios.get has returned or thrown.  o.kind: "throw", "none"
\* (no items), "bare" (an item without snippet: the destructuring throws inside
\* the try) or "item"
Tier3(k, o) ==
    /\ flows[k].pc = "tier3"
    /\ LET f == MetadataAnswer(flows[k], o) IN
       SetFlow(k, IF o.kind = "item"
                  THEN AfterTranscript(f, Some(o.title \o <<"\n">> \o o.description))
                  ELSE AfterTranscript(f, Null))
    /\ FlowVarsOnly

\* (a variant whose loop gives up at the first throw)
Stage1Aborts(k, o) ==
    /\ flows[k].pc = "stage1"
    /\ LET i == Len(flows[k].partials) + 1
           partial == IF Truthy(o.text) THEN o.text.text ELSE <<>>
       IN  SetFlow(k, IF o.throws THEN Return(flows[k], NoBulletsResult)
                      ELSE AfterPartial([flows[k] EXCEPT !.partials = Append(@, partial),
                                                         !.answers = Append(@, o)], i))
    /\ FlowVarsOnly

\* lines 223-237: ai.generate for the current section has returned or thrown
Stage1(k, o) ==
    /\ flows[k].pc = "stage1"
    /\ LET i == Len(flows[k].partials) + 1
           partial == IF ~o.throws /\ Truthy(o.text) THEN o.text.text ELSE <<>>
       IN  SetFlow(k, AfterPartial([flows[k] EXCEPT !.partials = Append(@, partial),
                                                    !.answers = Append(@, o)], i))
    /\ FlowVarsOnly

\* (a variant without the catch: the flow ends without a result)
Stage2Rethrows(k, o) ==
    /\ flows[k].pc = "stage2"
    /\ LET f == [flows[k] EXCEPT !.final = o.kind] IN
       SetFlow(k, IF o.kind = "throw" THEN Return(f, Pending)
                  ELSE IF o.kind = "null" THEN Return(f, NoOutputResult)
                  ELSE Return(f, o.output))
    /\ FlowVarsOnly

\* (a variant that asks again when the final generation throws)
Stage2Retries(k, o) ==
    /\ flows[k].pc = "stage2"
    /\ LET f == [flows[k] EXCEPT !.final = o.kind] IN
       SetFlow(k, IF o.kind = "throw"
                  THEN Issue(f, Call("final", "-", 0, 0, CombinedBullets(f.partials)), "stage2")
                  ELSE IF o.kind = "null" THEN Return(f, NoOutputResult)
                  ELSE Return(f, o.output))
    /\ FlowVarsOnly

\* lines 252-284: the final ai.generate has returned or thrown.  o.kind: "throw",
\* "null" (no result or no output) or "output"
Stage2(k, o) ==
    /\ flows[k].pc = "stage2"
    /\ LET f == [flows[k] EXCEPT !.final = o.kind] IN
       SetFlow(k, IF o.kind = "throw" THEN Return(f, FinalErrorResult)
                  ELSE IF o.kind = "null" THEN Return(f, NoOutputResult)
                  ELSE Return(f, o.output))
    /\ FlowVarsOnly

\* expressHandler sends the flow's result; the invocation is over
Respond(k) ==
    /\ flows[k].pc = "done"
    /\ flows' = SubSeq(flows, 1, k - 1) \o SubSeq(flows, k + 1, Len(flows))
    /\ FlowVarsOnly

-----------------------------------------------------------------------------
(* The environment: requests, the clock, and what the external services answer *)

BareId == <<"d", "Q", "w", "4", "w", "9", "W", "g", "X", "c", "Q">>
NotAUrl == <<"n", "o", "t", " ", "a", " ", "u", "r", "l">>
ShortLink == <<"h", "t", "t", "p", "s", ":", "/", "/">> \o YOUTU_BE \o <<"/">> \o BareId
EmptyShortLink == <<"h", "t", "t", "p", "s", ":", "/", "/">> \o YOUTU_BE \o <<"/">>

ApiKeys == {Null, Some(<<"k">>)}

\* one client behind a proxy and one connecting directly
ProxiedClient == [forwarded |-> "a", address |-> "p"]
DirectClient == [forwarded |-> "", address |-> "b"]
Clients == {ProxiedClient, DirectClient}
\* by how much the clock may have advanced between two events
ServerSteps == {WINDOW_MS}
LimiterSteps == {WINDOW_MS - 1, WINDOW_MS}

\* caption cue texts
Hi == <<"H", "i", ".">>
LongSentence == Fill(LongLen, "a") \o <<".">>
HugeSentence == Fill(CHUNK_LEN - 1, "a") \o <<".">>

Captions(cues) == [throws |-> FALSE, cues |-> cues]
CaptionsThrow == [throws |-> TRUE, cues |-> <<>>]
Metadata(kind, title, description) ==
    [kind |-> kind, title |-> title, description |-> description]
Generated(text) == [throws |-> FALSE, text |-> text]
GenerateThrows == [throws |-> TRUE, text |-> Null]
GoodOutput == [title |-> "T", summary |-> "S", bullets |-> <<"b1", "b2">>, warnings |-> <<>>]
WarnedOutput == [title |-> "T", summary |-> "S", bullets |-> <<"b1">>, warnings |-> <<"w">>]
Final(kind, output) == [kind |-> kind, output |-> output]

\* what the services answer to the flows of the server specification
ServerRefs == {BareId, NotAUrl}
ServerCaptions == {CaptionsThrow}
ServerMetadata == {Metadata("item", <<"T">>, Hi)}
ServerGenerated == {Generated(Some(<<"x">>))}
ServerFinal == {Final("output", GoodOutput)}

\* what they answer to the single flow of the flow specification
FlowRefs == {BareId, NotAUrl, ShortLink, EmptyShortLink}
FlowCaptions ==
    {CaptionsThrow, Captions(<<>>), Captions(<< <<>> >>), Captions(<< <<>>, <<>> >>),
     Captions(<<Hi>>), Captions(<<Hi, Hi>>), Captions(<<LongSentence, LongSentence>>),
     Captions(<<LongSentence, LongSentence, LongSentence>>), Captions(<<HugeSentence>>)}
FlowMetadata ==
    {Metadata("throw", <<>>, <<>>), Metadata("none", <<>>, <<>>),
     Metadata("bare", <<>>, <<>>), Metadata("item", <<>>, <<>>),
     Metadata("item", <<"T">>, Hi)}
FlowGenerated ==
    {GenerateThrows, Generated(Null), Generated(Some(<<>>)),
     Generated(Some(<<"x">>)), Generated(Some(<<"y">>))}
FlowFinal ==
    {Final("throw", Pending), Final("null", Pending),
     Final("output", GoodOutput), Final("output", WarnedOutput)}

-----------------------------------------------------------------------------
(* The server: the requests of one client, the clock, and its flows in flight *)

\* no helper is called on its own
NoCall == [fn |-> "", pc |-> "idle"]

Started(keys) ==
    /\ now = 0
    /\ ticks = 0
    /\ apiKey \in keys
    /\ hits = <<>>
    /\ log = <<>>
    /\ flows = <<>>
    /\ helper = NoCall

Advance(steps) ==
    /\ ticks < MaxTicks
    /\ \E d \in steps : now' = now + d
    /\ ticks' = ticks + 1
    /\ UNCHANGED <<apiKey, hits, log, flows, helper>>

Init == Started(ApiKeys)

Tick == Advance(ServerSteps)

Arrive ==
    \E c \in {ProxiedClient}, urlOrId \in ServerRefs :
        LET ip == ClientIp(c.forwarded, c.address) IN
        /\ Len(Served(ip)) < MaxArrivals
        /\ OverLimit(Pruned(ip)) \/ Len(flows) < MaxInFlight
        /\ Limit(ip, urlOrId)

Resolve == \E k \in DOMAIN flows : Start(k)
FetchEnglish == \E k \in DOMAIN flows, o \in ServerCaptions : Tier1(k, o)
FetchAny == \E k \in DOMAIN flows, o \in ServerCaptions : Tier2(k, o)
FetchMetadata == \E k \in DOMAIN flows, o \in ServerMetadata : Tier3(k, o)
Summarize == \E k \in DOMAIN flows, o \in ServerGenerated : Stage1(k, o)
Combine == \E k \in DOMAIN flows, o \in ServerFinal : Stage2(k, o)
Reply == \E k \in DOMAIN flows : Respond(k)

Next ==
    \/ Tick
    \/ Arrive
    \/ Resolve
    \/ FetchEnglish
    \/ FetchAny
    \/ FetchMetadata
    \/ Summarize
    \/ Combine
    \/ Reply

Spec == Init /\ [][Next]_vars

-----------------------------------------------------------------------------
(* The limiter alone: any requests of two clients at any of the instants; the *)
(* flows they start stay suspended                                             *)

Arrivals == Len(Served("a")) + Len(Served("b"))

LimiterTick == Advance(LimiterSteps)

Knock ==
    \E c \in Clients, urlOrId \in {BareId} :
        /\ Arrivals < MaxArrivals
        /\ Limit(ClientIp(c.forwarded, c.address), urlOrId)

LimiterNext == LimiterTick \/ Knock

LimiterInit == Started({Null})

LimiterSpec == LimiterInit /\ [][LimiterNext]_vars

-----------------------------------------------------------------------------
(* One flow against every answer of the services *)

FlowInit == Started(ApiKeys)

Submit ==
    /\ DOMAIN log = {}
    /\ \E urlOrId \in FlowRefs : Limit("a", urlOrId)

FlowResolve == \E k \in DOMAIN flows : Start(k)
FlowFetchEnglish == \E k \in DOMAIN flows, o \in FlowCaptions : Tier1(k, o)
FlowFetchAny == \E k \in DOMAIN flows, o \in FlowCaptions : Tier2(k, o)
FlowFetchMetadata == \E k \in DOMAIN flows, o \in FlowMetadata : Tier3(k, o)
FlowSummarize == \E k \in DOMAIN flows, o \in FlowGenerated : Stage1(k, o)
FlowCombine == \E k \in DOMAIN flows, o \in FlowFinal : Stage2(k, o)

FlowNext ==
    \/ Submit
    \/ FlowResolve
    \/ FlowFetchEnglish
    \/ FlowFetchAny
    \/ FlowFetchMetadata
    \/ FlowSummarize
    \/ FlowCombine

FlowSpec == FlowInit /\ [][FlowNext]_vars

\* The same, where the synchronous code runs on and every awaited call is
\* answered (it returns or throws) in the end
FlowProgress ==
    \/ FlowResolve
    \/ FlowFetchEnglish
    \/ FlowFetchAny
    \/ FlowFetchMetadata
    \/ FlowSummarize
    \/ FlowCombine

FairFlowSpec == FlowInit /\ [][FlowNext]_vars /\ WF_vars(FlowProgress)

-----------------------------------------------------------------------------
(* chunk on its own: every text over a small alphabet, every small maxLen *)

Alphabet == {"a", ".", " ", "\n"}
Texts == UNION {[1..n -> Alphabet] : n \in 0..MaxText}
Limits == 1..MaxLimit

ServerIdle ==
    /\ now = 0
    /\ ticks = 0
    /\ apiKey = Null
    /\ hits = <<>>
    /\ log = <<>>
    /\ flows = <<>>

ChunkInit ==
    /\ ServerIdle
    /\ \E text \in Texts, maxLen \in Limits :
           helper = [fn |-> "chunk", pc |-> "called", text |-> text, maxLen |-> maxLen,
                   parts |-> <<>>]

ChunkReturn ==
    /\ helper.fn = "chunk" /\ helper.pc = "called"
    /\ helper' = [helper EXCEPT !.pc = "returned",
                               !.parts = chunk(helper.text, helper.maxLen)]
    /\ UNCHANGED <<now, ticks, apiKey, hits, log, flows>>

ChunkSpec == ChunkInit /\ [][ChunkReturn]_vars

-----------------------------------------------------------------------------
(* extractVideoId on its own: bare tokens and http(s) URLs put together from  *)
(* hosts, paths and queries                                                   *)

ShortToken == <<"a", "b", "c">>
Schemes == {<<"h", "t", "t", "p", "s", ":", "/", "/">>, <<"h", "t", "t", "p", ":", "/", "/">>}
Hosts ==
    {YOUTU_BE,
     <<"w", "w", "w", ".", "y", "o", "u", "t", "u", "b", "e", ".", "c", "o", "m">>,
     <<"n", "o", "t">> \o YOUTU_BE \o <<".", "e", "x">>}
Paths ==
    {<<>>, <<"/">>, <<"/">> \o BareId, <<"/">> \o ShortToken,
     <<"/", "w", "a", "t", "c", "h">>,
     <<"/">> \o EMBED, <<"/">> \o EMBED \o <<"/">>,
     <<"/">> \o EMBED \o <<"/">> \o BareId,
     <<"/">> \o EMBED \o <<"/">> \o ShortToken,
     <<"/">> \o EMBED \o <<"/">> \o BareId \o <<"/", "x">>}
Queries ==
    {<<>>, <<"?", "v", "=">> \o BareId, <<"?", "v", "=">> \o ShortToken, <<"?", "v", "=">>,
     <<"?", "t", "=", "1", "&", "v", "=">> \o BareId,
     <<"?", "v", "=">> \o BareId \o <<"!">>}
References ==
    {BareId, NotAUrl, ShortToken, <<>>, BareId \o <<"Q">>,
     SubSeq(BareId, 1, ID_LEN - 1) \o <<"!">>,
     <<"-", "_">> \o SubSeq(BareId, 3, ID_LEN)}
        \cup {s \o h \o p \o q : s \in Schemes, h \in Hosts, p \in Paths, q \in Queries}

ResolverInit ==
    /\ ServerIdle
    /\ \E input \in References :
           helper = [fn |-> "extractVideoId", pc |-> "called", input |-> input,
                   videoId |-> Null]

ResolverReturn ==
    /\ helper.fn = "extractVideoId" /\ helper.pc = "called"
    /\ helper' = [helper EXCEPT !.pc = "returned",
                               !.videoId = extractVideoId(helper.input)]
    /\ UNCHANGED <<now, ticks, apiKey, hits, log, flows>>

ResolverSpec == ResolverInit /\ [][ResolverReturn]_vars

-----------------------------------------------------------------------------
(* Properties of the rate limiter *)

Admitted(e) == e.status # 429
Entries(l, ip) == IF ip \in DOMAIN l THEN l[ip] ELSE <<>>
LastAt(entries) == entries[Len(entries)].at
\* the timestamps of the requests that are younger than the window at the
\* identity's latest request, in order
Live(entries) ==
    LET young == SelectSeq(entries, LAMBDA e : LastAt(entries) - e.at < WINDOW_MS)
    IN  [k \in 1..Len(young) |-> young[k].at]

\* C1: a request is admitted exactly when at most MAX_REQ requests of its
\* identity, itself included, are younger than WINDOW_MS at its time; so the first
\* MAX_REQ requests of an identity are admitted, and a request is rejected when
\* the request MAX_REQ places before it is still inside the window.
C1_Admission ==
    \A i \in DOMAIN log : \A n \in 1..Len(log[i]) :
        LET e == log[i][n]
            young == {m \in 1..n : e.at - log[i][m].at < WINDOW_MS}
        IN  /\ Admitted(e) <=> Cardinality(young) <= MAX_REQ
            /\ n <= MAX_REQ => Admitted(e)
            /\ (n > MAX_REQ /\ e.at - log[i][n - MAX_REQ].at < WINDOW_MS) => ~Admitted(e)

C1_Witness ==
    \E i \in DOMAIN log :
        /\ Len(log[i]) > MAX_REQ
        /\ \A n \in 1..MAX_REQ : Admitted(log[i][n])
        /\ ~Admitted(log[i][MAX_REQ + 1])

\* C2: once an identity has been rejected, a request of it that comes when the
\* window has elapsed (every earlier request of the identity is WINDOW_MS old or
\* older) is admitted.
C2_Readmission ==
    \A i \in DOMAIN log : \A n \in 2..Len(log[i]) :
        (/\ \E m \in 1..(n - 1) : ~Admitted(log[i][m])
         /\ \A m \in 1..(n - 1) : log[i][n].at - log[i][m].at >= WINDOW_MS)
        => Admitted(log[i][n])

C2_Witness ==
    \E i \in DOMAIN log : \E n \in 2..Len(log[i]) :
        /\ ~Admitted(log[i][n - 1])
        /\ log[i][n].at - log[i][n - 1].at >= WINDOW_MS
        /\ Admitted(log[i][n])

\* C3: after an admission check of an identity, every timestamp stored for it is
\* younger than WINDOW_MS at the time of that check.
C3_Pruned ==
    \A i \in DOMAIN hits :
        /\ Len(Entries(log, i)) > 0
        /\ \A k \in 1..Len(hits[i]) :
               /\ hits[i][k] <= LastAt(log[i])
               /\ LastAt(log[i]) - hits[i][k] < WINDOW_MS

C3_Witness ==
    \E i \in DOMAIN hits : Len(hits[i]) > 0 /\ Len(hits[i]) < Len(log[i])

\* C4: a request the limiter rejects is answered 429 with the error "Too many
\* requests", next() is not called and no flow is started or changed for it; an
\* admitted request is handed on once, as one new flow at its start; and no flow
\* appears in any other way.
C4_Gate ==
    [][LET grown == {i \in DOMAIN log' : Len(log'[i]) # Len(Entries(log, i))}
       IN  IF grown = {} THEN Len(flows') <= Len(flows)
           ELSE \A i \in grown :
                  LET e == log'[i][Len(log'[i])] IN
                  /\ Len(log'[i]) = Len(Entries(log, i)) + 1
                  /\ ~Admitted(e) =>
                         /\ e.error = "Too many requests"
                         /\ e.next = 0
                         /\ flows' = flows
                  /\ Admitted(e) =>
                         /\ e.next = 1
                         /\ Len(flows') = Len(flows) + 1
                         /\ SubSeq(flows', 1, Len(flows)) = flows
                         /\ flows'[Len(flows')].pc = "start"
                         /\ flows'[Len(flows')].calls = <<>>]_vars

C4_Witness ==
    /\ "a" \in DOMAIN log
    /\ ~Admitted(log["a"][Len(log["a"])])
    /\ \E k \in DOMAIN flows : flows[k].pc = "stage1"

\* C5: whatever requests are in flight, after every step the window of each
\* identity holds exactly one timestamp for each of its requests that is younger
\* than WINDOW_MS at its latest request; a step handles at most one request, it
\* leaves the window of every other identity as it was, and its decision counts
\* the requests of its own identity only.
C5_Atomic ==
    [][/\ DOMAIN hits' = DOMAIN log'
       /\ \A i \in DOMAIN log' : hits'[i] = Live(log'[i])
       /\ \A j \in DOMAIN log : log'[j] = log[j] => hits'[j] = Entries(hits, j)
       /\ Cardinality({i \in DOMAIN log' : log'[i] # Entries(log, i)}) <= 1
       /\ \A i \in DOMAIN log' :
              log'[i] # Entries(log, i) =>
                  (Admitted(log'[i][Len(log'[i])]) <=> Len(Live(log'[i])) <= MAX_REQ)]_vars

C5_Witness ==
    /\ Len(flows) >= 2
    /\ DOMAIN hits = {"a", "b"}
    /\ \E i \in DOMAIN hits : Len(hits[i]) < Len(log[i])
    /\ \E j \in DOMAIN hits : now - hits[j][1] >= WINDOW_MS

-----------------------------------------------------------------------------
(* Properties of the transcript acquisition *)

TierOrder == <<[kind |-> "captions", lang |-> "en"],
               [kind |-> "captions", lang |-> "any"],
               [kind |-> "metadata", lang |-> "-"]>>
Acquisitions(f) == SelectSeq(f.calls, LAMBDA c : c.kind \in {"captions", "metadata"})
Generations(f) == SelectSeq(f.calls, LAMBDA c : c.kind = "generate")
Finals(f) == SelectSeq(f.calls, LAMBDA c : c.kind = "final")
Acquiring(f) == f.pc \in {"tier1", "tier2", "tier3"}
\* fetchTranscript has returned
AcquisitionOver(f) == Len(f.tiers) > 0 /\ ~Acquiring(f)
Failed(t) == t.kind \in {"throw", "empty"}

\* The tiers are asked in the fixed order, one at a time, none twice; the
\* second is asked exactly when the first failed or gave no cue; the result is
\* what the last tier asked has given.  `third` says when the third is asked.
TierPolicy(f, third) ==
    LET acq == Acquisitions(f)
        n == Len(f.tiers)
    IN  /\ Len(acq) <= 3
        /\ \A j \in 1..Len(acq) :
               [kind |-> acq[j].kind, lang |-> acq[j].lang] = TierOrder[j]
        /\ Len(acq) = n + (IF Acquiring(f) THEN 1 ELSE 0)
        /\ \A j \in 1..(n - 1) : Failed(f.tiers[j])
        /\ n >= 1 => (Len(acq) >= 2 <=> Failed(f.tiers[1]))
        /\ n >= 2 => (Len(acq) >= 3 <=> third)
        /\ AcquisitionOver(f) =>
               f.transcript = IF Failed(f.tiers[n]) THEN Null ELSE Some(f.tiers[n].text)

\* C6 as stated: tier k+1 is asked if and only if tier k failed or returned
\* nothing, also for the metadata tier.
C6_AsStated ==
    \A k \in DOMAIN flows : TierPolicy(flows[k], Failed(flows[k].tiers[2]))

\* C6, amended: the three sources are asked strictly in the order captions in
\* "en", captions in any language, metadata, none twice; the second is asked iff
\* the first threw or returned no cue; the metadata service is asked iff the
\* second threw or returned no cue and YOUTUBE_API_KEY is set; the result is the
\* text of the first tier that returned any cue or item.
C6_TierOrder ==
    \A k \in DOMAIN flows :
        TierPolicy(flows[k], Failed(flows[k].tiers[2]) /\ Truthy(apiKey))

C6_Witness ==
    \E k \in DOMAIN flows :
        /\ Len(Acquisitions(flows[k])) = 3
        /\ AcquisitionOver(flows[k])
        /\ Truthy(flows[k].transcript)

\* C7: when fetchTranscript returns a text and not null, the text is not empty.
C7_NeverEmptyText ==
    \A k \in DOMAIN flows :
        AcquisitionOver(flows[k]) =>
            flows[k].transcript.null \/ Len(flows[k].transcript.text) > 0

\* C8: when every tier asked has thrown or returned nothing, fetchTranscript
\* returns null; whenever it returns no usable text the flow returns the
\* "Transcript not available" result with no bullets and a warning, without any
\* generation call; and without YOUTUBE_API_KEY the metadata service is never
\* called.
C8_Unavailable ==
    \A k \in DOMAIN flows :
        LET f == flows[k] IN
        /\ (AcquisitionOver(f) /\ \A j \in 1..Len(f.tiers) : Failed(f.tiers[j]))
               => f.transcript = Null
        /\ (AcquisitionOver(f) /\ ~Truthy(f.transcript)) =>
               /\ f.pc = "done"
               /\ f.result = NoTranscriptResult
               /\ f.result.title = "Transcript not available"
               /\ f.result.bullets = <<>>
               /\ Len(f.result.warnings) > 0
               /\ Generations(f) = <<>>
               /\ Finals(f) = <<>>
        /\ ~Truthy(apiKey) => \A j \in 1..Len(f.calls) : f.calls[j].kind # "metadata"

C8_Witness ==
    \E k \in DOMAIN flows :
        /\ ~Truthy(apiKey)
        /\ Len(flows[k].tiers) = 2
        /\ flows[k].pc = "done"
        /\ flows[k].result = NoTranscriptResult

-----------------------------------------------------------------------------
(* Properties of the per-chunk loop *)

FailedAnswer(o) == o.throws \/ ~Truthy(o.text)

\* C9: the generation requests are issued one per chunk, in chunk order, each
\* only after the one before has returned or thrown; a request that throws or
\* returns no text leaves an empty entry at its place and the loop goes on, so
\* that after the loop there is one entry per chunk, in chunk order.
C9_OnePerChunk ==
    \A k \in DOMAIN flows :
        LET f == flows[k]
            gen == Generations(f)
            n == Len(f.parts)
        IN  /\ Len(gen) <= n
            /\ \A j \in 1..Len(gen) :
                   gen[j].index = j /\ gen[j].total = n /\ gen[j].text = f.parts[j]
            /\ Len(f.partials) = Len(f.answers)
            /\ Len(gen) = Len(f.partials) + (IF f.pc = "stage1" THEN 1 ELSE 0)
            /\ (n > 0 /\ f.pc \in {"stage2", "done"}) => Len(f.partials) = n
            /\ \A j \in 1..Len(f.partials) :
                   f.partials[j] = IF FailedAnswer(f.answers[j]) THEN <<>>
                                   ELSE f.answers[j].text.text

C9_Witness ==
    \E k \in DOMAIN flows :
        /\ Len(flows[k].parts) = 3
        /\ flows[k].pc \in {"stage2", "done"}
        /\ flows[k].answers[2].throws
        /\ flows[k].partials[1] # <<>>
        /\ flows[k].partials[2] = <<>>
        /\ flows[k].partials[3] # <<>>

\* C10: when every per-chunk request has thrown or returned no text, the final
\* generation is never requested and the flow returns the "Summary unavailable"
\* result with no bullets and a warning.
C10_AllChunksFailed ==
    \A k \in DOMAIN flows :
        LET f == flows[k] IN
        (/\ Len(f.parts) > 0
         /\ Len(f.answers) = Len(f.parts)
         /\ \A j \in 1..Len(f.answers) : FailedAnswer(f.answers[j]))
        => /\ Finals(f) = <<>>
           /\ f.pc = "done"
           /\ f.result = NoBulletsResult
           /\ f.result.title = "Summary unavailable"
           /\ f.result.bullets = <<>>
           /\ Len(f.result.warnings) > 0

C10_Witness ==
    \E k \in DOMAIN flows :
        /\ Len(flows[k].parts) >= 2
        /\ Len(flows[k].answers) = Len(flows[k].parts)
        /\ \A j \in 1..Len(flows[k].answers) : FailedAnswer(flows[k].answers[j])
        /\ \E j \in 1..Len(flows[k].answers) : flows[k].answers[j].throws
        /\ \E j \in 1..Len(flows[k].answers) : ~flows[k].answers[j].throws
        /\ flows[k].pc = "done"

-----------------------------------------------------------------------------
(* Properties of the final generation and of the flow's results *)

NonEmpty(partials) == SelectSeq(partials, LAMBDA p : Len(p) > 0)
LoopOver(f) == Len(f.parts) > 0 /\ Len(f.partials) = Len(f.parts)

\* C11: when the per-chunk loop has left at least one non-empty entry, the
\* final generation is requested exactly once, after every per-chunk request has
\* been answered; its input, cut at the newlines, is the non-empty entries in
\* chunk order; it is requested at no other time and never a second time.
C11_CombineOnce ==
    \A k \in DOMAIN flows :
        LET f == flows[k]
            fin == Finals(f)
        IN  /\ Len(fin) <= 1
            /\ (LoopOver(f) /\ NonEmpty(f.partials) # <<>>) => Len(fin) = 1
            /\ Len(fin) = 1 =>
                   /\ LoopOver(f)
                   /\ NonEmpty(f.partials) # <<>>
                   /\ f.calls[Len(f.calls)] = fin[1]
                   /\ Len(Generations(f)) = Len(f.parts)
                   /\ SplitChar(fin[1].text, "\n") = NonEmpty(f.partials)

C11_Witness ==
    \E k \in DOMAIN flows :
        /\ Len(flows[k].parts) = 3
        /\ flows[k].partials = << <<"x">>, <<>>, <<"y">> >>
        /\ Len(Finals(flows[k])) = 1
        /\ Finals(flows[k])[1].text = <<"x", "\n", "y">>
        /\ flows[k].pc = "done"

\* C12: whenever the final generation throws or returns no value, the flow
\* returns a result titled "Summary unavailable" with no bullets and a warning,
\* and issues no further generation.
C12_ReductionFailure ==
    \A k \in DOMAIN flows :
        LET f == flows[k] IN
        f.final \in {"throw", "null"} =>
            /\ f.pc = "done"
            /\ f.result.title = "Summary unavailable"
            /\ f.result.bullets = <<>>
            /\ Len(f.result.warnings) > 0
            /\ Len(Finals(f)) = 1
            /\ f.calls[Len(f.calls)].kind = "final"

\* The terminal state a returned flow is in, from what happened in it
InvalidReference(f) == ~Truthy(f.videoId)
TranscriptUnavailable(f) == Truthy(f.videoId) /\ ~Truthy(f.transcript)
EmptyTranscript(f) == Truthy(f.transcript) /\ f.parts = <<>>
AllChunksFailed(f) == LoopOver(f) /\ NonEmpty(f.partials) = <<>>
ReductionFailed(f) == f.final \in {"throw", "null"}
Success(f) == f.final = "output"
TerminalStates(f) ==
    <<InvalidReference(f), TranscriptUnavailable(f), EmptyTranscript(f),
      AllChunksFailed(f), ReductionFailed(f), Success(f)>>

\* C13: a flow that has returned is in exactly one of the six terminal states
\* invalid reference, transcript unavailable, empty transcript, all chunks
\* failed, reduction failed, success; a flow is always at one of its
\* suspension points or returned with a result; and in every state but success
\* the result has a title and a summary, no bullets and at least one warning.
C13_TerminalStates ==
    \A k \in DOMAIN flows :
        LET f == flows[k]
            in == {j \in 1..6 : TerminalStates(f)[j]}
        IN  /\ f.pc \in {"start", "tier1", "tier2", "tier3", "stage1", "stage2", "done"}
            /\ f.pc = "done" =>
                   /\ Cardinality(in) = 1
                   /\ f.result # Pending
                   /\ ~Success(f) =>
                          /\ f.result.title # "" /\ f.result.summary # ""
                          /\ f.result.bullets = <<>>
                          /\ Len(f.result.warnings) > 0
                   /\ f.result = CASE InvalidReference(f) -> InvalidResult
                                   [] TranscriptUnavailable(f) -> NoTranscriptResult
                                   [] EmptyTranscript(f) -> EmptyTranscriptResult
                                   [] AllChunksFailed(f) -> NoBulletsResult
                                   [] f.final = "throw" -> FinalErrorResult
                                   [] f.final = "null" -> NoOutputResult
                                   [] OTHER -> f.result

C13_Witness ==
    \E k \in DOMAIN flows :
        /\ flows[k].pc = "done"
        /\ flows[k].final = "throw"
        /\ flows[k].result = FinalErrorResult

-----------------------------------------------------------------------------
(* Properties of chunk *)

ChunkReturned == helper.fn = "chunk" /\ helper.pc = "returned"
Sentences(text) == SplitSentences(text, 1)

\* the sentences of the chunks parts[k..], in chunk order
RECURSIVE SentencesOf(_, _)
SentencesOf(parts, k) ==
    IF k > Len(parts) THEN <<>> ELSE Sentences(parts[k]) \o SentencesOf(parts, k + 1)

\* text[pos..] is parts[k], a run of whitespace, parts[k+1], ..., the last part
RECURSIVE Rejoins(_, _, _, _)
Rejoins(text, pos, parts, k) ==
    LET end == pos + Len(parts[k]) IN
    /\ end <= Len(text) + 1
    /\ SubSeq(text, pos, end - 1) = parts[k]
    /\ IF k = Len(parts) THEN end = Len(text) + 1
       ELSE /\ end <= Len(text)
            /\ text[end] \in Whitespace
            /\ Rejoins(text, First(end, Len(text), LAMBDA i : text[i] \notin Whitespace,
                                   Len(text) + 1),
                       parts, k + 1)

\* C14: every chunk is at most maxLen long, except a chunk made of one single
\* sentence of the input that is longer than maxLen, which is that sentence
\* whole (without the white space around it).
C14_SizeBound ==
    ChunkReturned =>
        \A j \in 1..Len(helper.parts) :
            LET c == helper.parts[j] IN
            \/ Len(c) <= helper.maxLen
            \/ /\ Len(Sentences(c)) = 1
               /\ \E i \in 1..Len(Sentences(helper.text)) :
                      c = Trim(Sentences(helper.text)[i])

C14_Witness ==
    /\ ChunkReturned
    /\ \E j \in 1..Len(helper.parts) : Len(helper.parts[j]) > helper.maxLen
    /\ \E j \in 1..Len(helper.parts) :
           /\ Len(helper.parts[j]) > 0
           /\ Len(helper.parts[j]) <= helper.maxLen

\* C15: the sentences of the chunks, in chunk order, are the sentences of the
\* input in input order, and the chunks joined by the white space that
\* separated them reproduce the input.
C15_Lossless ==
    ChunkReturned =>
        /\ SentencesOf(helper.parts, 1) = Sentences(helper.text)
        /\ IF helper.parts = <<>> THEN helper.text = <<>>
           ELSE Rejoins(helper.text, 1, helper.parts, 1)

\* C16: a text shorter than maxLen comes back as exactly one chunk, equal to
\* the text.
C16_Idempotent ==
    (ChunkReturned /\ Len(helper.text) < helper.maxLen) => helper.parts = <<helper.text>>

\* C19: no chunk is empty.
C19_NoEmptyChunk ==
    ChunkReturned => \A j \in 1..Len(helper.parts) : Len(helper.parts[j]) > 0

-----------------------------------------------------------------------------
(* Properties of extractVideoId *)

ResolverReturned == helper.fn = "extractVideoId" /\ helper.pc = "returned"

\* C17: whatever extractVideoId returns as an id, by any of its rules, has 11
\* characters, each a letter, a digit, "_" or "-"; and an input of that form is
\* returned unchanged.
C17_IdGrammar ==
    ResolverReturned =>
        /\ ~helper.videoId.null =>
               /\ Len(helper.videoId.text) = 11
               /\ \A i \in 1..Len(helper.videoId.text) :
                      helper.videoId.text[i] \in WordOrDash
        /\ (Len(helper.input) = 11 /\ \A i \in 1..11 : helper.input[i] \in WordOrDash)
               => helper.videoId = Some(helper.input)

-----------------------------------------------------------------------------
(* Termination of the flow *)

Rank(pc) ==
    CASE pc = "start" -> 0
      [] pc = "tier1" -> 1
      [] pc = "tier2" -> 2
      [] pc = "tier3" -> 3
      [] pc = "stage1" -> 4
      [] pc = "stage2" -> 5
      [] pc = "done" -> 6

GenerationCalls(f) == Len(Generations(f)) + Len(Finals(f))

\* a step of flow f to g goes on to a later stage, or stays in the per-chunk
\* loop with one more chunk answered
Advances(f, g) ==
    \/ Rank(g.pc) > Rank(f.pc)
    \/ /\ f.pc = "stage1" /\ g.pc = "stage1"
       /\ Len(g.partials) = Len(f.partials) + 1
       /\ Len(g.partials) < Len(g.parts)

\* C18: when every awaited call is answered in the end, the flow of every
\* admitted request returns with a result; every step of a flow leaves its stage
\* for a later one or answers one more chunk, so that no stage is entered again;
\* and a flow over n chunks makes at most n + 1 generation calls.
C18_Terminates ==
    /\ [][\A k \in DOMAIN flows :
              (k \in DOMAIN flows' /\ flows'[k] # flows[k]) =>
                  /\ Advances(flows[k], flows'[k])
                  /\ GenerationCalls(flows'[k]) <= Len(flows'[k].parts) + 1]_vars
    /\ (flows # <<>>) ~>
           (flows # <<>> /\ \A k \in DOMAIN flows :
                                flows[k].pc = "done" /\ flows[k].result # Pending)

C18_Witness ==
    \E k \in DOMAIN flows :
        /\ flows[k].pc = "done"
        /\ Len(flows[k].parts) = 3
        /\ GenerationCalls(flows[k]) = 4

=============================================================================
